---- MODULE Spec2Model ----
(***************************************************************************)
(* A model of src/main.py: the AIAgent tool executor (_execute_tool,       *)
(* _read_file, _list_files, _edit_file) acting on a POSIX file tree, and   *)
(* the orchestration loop AIAgent.chat.                                    *)
(*                                                                         *)
(* Strings the program builds with f-strings are records: the field fmt    *)
(* names the template (the source's Chinese literal rendered in ASCII, the *)
(* original is quoted in the comment of each definition) and the other     *)
(* fields hold the interpolated values.  File contents, old_text and       *)
(* new_text are sequences of one-character strings.  A path is the         *)
(* sequence of the parts of the str between "/", relative to the working   *)
(* directory: <<"d", "f">> is "d/f", <<"d", "">> is "d/", <<"">> is the    *)
(* empty str, and <<>> stands for ".".  A tool_input dict is the sequence  *)
(* of its items in insertion order.  The log file agent.log, which the     *)
(* logging module keeps in the working directory, is a file of the tree,   *)
(* and a tool can be pointed at it like at any other file.                 *)
(***************************************************************************)
EXTENDS Integers, Sequences, FiniteSets, TLC

VARIABLES
    fs,            \* the file tree below the working directory
    last,          \* the latest _execute_tool call: arguments, tree before, outcome
    messages,      \* self.messages, the transcript
    pc,            \* where chat is: "idle", "call" (line 244), "tools" (line 274)
    response,      \* response.content of the latest Model Client call
    i,             \* position of the for loop of line 274 in response
    tool_results,  \* the local list tool_results of chat
    returned,      \* the value the latest finished chat call returned
    nCalls,        \* history: Model Client calls made in the session
    nTurns,        \* history: chat calls made in the session
    execLog,       \* history: the _execute_tool invocations of the session
    turnStart,     \* history: nCalls, Len(execLog), Len(messages) when chat was entered
    nRaised        \* history: Model Client calls of the session that raised

vars == <<fs, last, messages, pc, response, i, tool_results, returned,
          nCalls, nTurns, execLog, turnStart, nRaised>>

chatVars == <<messages, pc, response, i, tool_results, returned,
              nCalls, nTurns, execLog, turnStart, nRaised>>

-----------------------------------------------------------------------------
(* The file tree *)

Names == {"d", "f"}

\* line 21: logging.FileHandler("agent.log"), a path relative to the working
\* directory
LogName == "agent.log"
LogPath == <<LogName>>

\* ord() of the first character of a name: the names differ in it, so sorted()
\* of line 165 orders by it
Ord(n) == CASE n = LogName -> 97 [] n = "d" -> 100 [] n = "f" -> 102 [] OTHER -> 0

\* the paths over Names
ToolPaths == {<<>>} \cup {<<n>> : n \in Names} \cup {<<n, m>> : n \in Names, m \in Names}

\* the places of the tree: the working directory and what can lie below it
Paths == ToolPaths \cup {LogPath}

\* the path str ends in "/"
EndsInSlash(p) == Len(p) > 1 /\ p[Len(p)] = ""

\* the path str is ""
IsEmptyStr(p) == p = <<"">>

\* the place a non-empty path str names: a trailing "/" apart
NodeOf(p) == IF EndsInSlash(p) THEN SubSeq(p, 1, Len(p) - 1) ELSE p

NoNode == [kind |-> "none", data |-> <<>>]
DirNode == [kind |-> "dir", data |-> <<>>]
FileNode(bytes) == [kind |-> "file", data |-> bytes]

Parent(p) == SubSeq(p, 1, Len(p) - 1)

\* the proper, non-empty prefixes of p
Ancestors(p) == {SubSeq(p, 1, k) : k \in 1..(Len(p) - 1)}

\* every node hangs below directories, the working directory is one
WellFormed(t) ==
    /\ t[<<>>].kind = "dir"
    /\ \A p \in Paths : t[p].kind # "none" => \A a \in Ancestors(p) : t[a].kind = "dir"

Exc(type, arg) == [type |-> type, arg |-> arg]

\* the OSError a system call on p raises because of the components before the
\* last one, or "none": ENOTDIR below a regular file, ENOENT below nothing
PrefixError(t, p) ==
    IF \E a \in Ancestors(p) : t[a].kind = "file" THEN "NotADirectoryError"
    ELSE IF \E a \in Ancestors(p) : t[a].kind = "none" THEN "FileNotFoundError"
    ELSE "none"

\* os.path.exists(path): stat fails on "", and on a path ending in "/" that
\* names no directory
PathExists(t, p) ==
    IF IsEmptyStr(p) THEN FALSE
    ELSE IF EndsInSlash(p) THEN t[NodeOf(p)].kind = "dir"
    ELSE t[p].kind # "none"

\* os.path.isdir(path)
IsDir(t, p) == ~IsEmptyStr(p) /\ t[NodeOf(p)].kind = "dir"

\* os.path.join(path, item) for a path that is not "": the item below the
\* place the path names
Join(p, item) == Append(NodeOf(p), item)

\* os.path.dirname(path): what stands before the last "/"; the result "" is
\* <<>>
DirName(p) == IF Len(p) = 0 THEN <<>> ELSE Parent(p)

\* the text layer of open(path, "r") with newline=None: universal newlines,
\* "\r\n" and "\r" are read as "\n"
ReadNewlines(s) ==
    LET kept == SelectSeq([k \in 1..Len(s) |-> k],
                          LAMBDA k : ~(s[k] = "\n" /\ k > 1 /\ s[k - 1] = "\r"))
    IN [j \in 1..Len(kept) |-> IF s[kept[j]] = "\r" THEN "\n" ELSE s[kept[j]]]

\* the text layer of open(path, "w") with newline=None: "\n" becomes os.linesep,
\* which is "\n" on POSIX, and "\r" is written as it is
WriteNewlines(s) == s

\* with open(path, "r", encoding="utf-8") as f: f.read()
\* open(2) for reading: ENOENT for "", the error of the components before the
\* last one, ENOENT for a missing place, ENOTDIR for a regular file named with
\* a trailing "/", EISDIR for a directory
OpenRead(t, p) ==
    IF IsEmptyStr(p) THEN [ok |-> FALSE, exc |-> Exc("FileNotFoundError", p)]
    ELSE IF PrefixError(t, NodeOf(p)) # "none"
    THEN [ok |-> FALSE, exc |-> Exc(PrefixError(t, NodeOf(p)), p)]
    ELSE IF t[NodeOf(p)].kind = "none"
    THEN [ok |-> FALSE, exc |-> Exc("FileNotFoundError", p)]
    ELSE IF t[NodeOf(p)].kind = "dir"
    THEN [ok |-> FALSE, exc |-> Exc("IsADirectoryError", p)]
    ELSE IF EndsInSlash(p) THEN [ok |-> FALSE, exc |-> Exc("NotADirectoryError", p)]
    ELSE [ok |-> TRUE, data |-> ReadNewlines(t[p].data)]

\* with open(path, "w", encoding="utf-8") as f: f.write(text)
\* open(2) with O_CREAT: ENOENT for "", the error of the components before the
\* last one, EISDIR for a path ending in "/" and for a directory
OpenWrite(t, p, text) ==
    IF IsEmptyStr(p) THEN [ok |-> FALSE, exc |-> Exc("FileNotFoundError", p), fs |-> t]
    ELSE IF PrefixError(t, NodeOf(p)) # "none"
    THEN [ok |-> FALSE, exc |-> Exc(PrefixError(t, NodeOf(p)), p), fs |-> t]
    ELSE IF EndsInSlash(p) \/ t[p].kind = "dir"
    THEN [ok |-> FALSE, exc |-> Exc("IsADirectoryError", p), fs |-> t]
    ELSE [ok |-> TRUE, fs |-> [t EXCEPT ![p] = FileNode(WriteNewlines(text))]]

\* os.makedirs(dir_name, exist_ok=True)
MakeDirs(t, p) ==
    IF \E a \in Ancestors(p) : t[a].kind = "file"
    THEN [ok |-> FALSE, exc |-> Exc("NotADirectoryError", p), fs |-> t]
    ELSE IF t[p].kind = "file"
    THEN [ok |-> FALSE, exc |-> Exc("FileExistsError", p), fs |-> t]
    ELSE [ok |-> TRUE,
          fs |-> [q \in Paths |->
                    IF q \in (Ancestors(p) \cup {p}) /\ t[q].kind = "none"
                    THEN DirNode ELSE t[q]]]

\* the names os.listdir(path) yields, in no particular order
Children(t, p) ==
    {n \in Names \cup {LogName} : Append(p, n) \in Paths /\ t[Append(p, n)].kind # "none"}

\* os.listdir(path)
ListDir(t, p) ==
    IF IsEmptyStr(p) THEN [ok |-> FALSE, exc |-> Exc("FileNotFoundError", p)]
    ELSE IF PrefixError(t, NodeOf(p)) # "none"
    THEN [ok |-> FALSE, exc |-> Exc(PrefixError(t, NodeOf(p)), p)]
    ELSE IF t[NodeOf(p)].kind = "none"
    THEN [ok |-> FALSE, exc |-> Exc("FileNotFoundError", p)]
    ELSE IF t[NodeOf(p)].kind = "file"
    THEN [ok |-> FALSE, exc |-> Exc("NotADirectoryError", p)]
    ELSE [ok |-> TRUE, names |-> Children(t, NodeOf(p))]

-----------------------------------------------------------------------------
(* The characters of the strings the program builds.  A str is the sequence  *)
(* of its characters, one element each; a character outside ASCII is named   *)
(* by its code point, "U6587" for U+6587.                                    *)

\* the characters of the names, keys and inputs of the model
Chars(s) ==
    CASE s = "read_file" -> <<"r", "e", "a", "d", "_", "f", "i", "l", "e">>
      [] s = "list_files" -> <<"l", "i", "s", "t", "_", "f", "i", "l", "e", "s">>
      [] s = "edit_file" -> <<"e", "d", "i", "t", "_", "f", "i", "l", "e">>
      [] s = "delete_file" -> <<"d", "e", "l", "e", "t", "e", "_", "f", "i", "l", "e">>
      [] s = "write_file" -> <<"w", "r", "i", "t", "e", "_", "f", "i", "l", "e">>
      [] s = "path" -> <<"p", "a", "t", "h">>
      [] s = "old_text" -> <<"o", "l", "d", "_", "t", "e", "x", "t">>
      [] s = "new_text" -> <<"n", "e", "w", "_", "t", "e", "x", "t">>
      [] s = "d" -> <<"d">>
      [] s = "f" -> <<"f">>
      [] s = "agent.log" -> <<"a", "g", "e", "n", "t", ".", "l", "o", "g">>
      [] s = "hello" -> <<"h", "e", "l", "l", "o">>
      [] s = "" -> <<>>

\* the path as the str the tools receive: "." for the working directory, the
\* parts joined by "/" otherwise
RECURSIVE StrOfPath(_)
StrOfPath(p) ==
    IF p = <<>> THEN <<".">>
    ELSE IF Len(p) = 1 THEN Chars(p[1])
    ELSE StrOfPath(SubSeq(p, 1, Len(p) - 1)) \o <<"/">> \o Chars(p[Len(p)])

\* the body of repr(s) for a str of letters and line ends: "\n" and "\r" are
\* written as escapes
RECURSIVE Escaped(_)
Escaped(s) ==
    IF s = <<>> THEN <<>>
    ELSE (IF s[1] = "\n" THEN <<"\\", "n">>
          ELSE IF s[1] = "\r" THEN <<"\\", "r">>
          ELSE <<s[1]>>) \o Escaped(Tail(s))

\* repr(s) of a str without quote or backslash
Repr(s) == <<"'">> \o Escaped(s) \o <<"'">>

\* str(e) of line 130, 149, 177, 217: the repr of the key for a KeyError,
\* "[Errno n] strerror: 'filename'" for an OSError
StrOfExc(e) ==
    CASE e.type = "KeyError" -> Repr(Chars(e.arg))
      [] e.type = "FileNotFoundError" ->
          <<"[", "E", "r", "r", "n", "o", " ", "2", "]", " ", "N", "o", " ", "s", "u", "c", "h", " ", "f", "i", "l", "e", " ", "o", "r", " ",
             "d", "i", "r", "e", "c", "t", "o", "r", "y", ":", " ">> \o Repr(StrOfPath(e.arg))
      [] e.type = "NotADirectoryError" ->
          <<"[", "E", "r", "r", "n", "o", " ", "2", "0", "]", " ", "N", "o", "t", " ", "a", " ", "d", "i", "r", "e", "c", "t", "o", "r", "y", ":", " ">>
          \o Repr(StrOfPath(e.arg))
      [] e.type = "IsADirectoryError" ->
          <<"[", "E", "r", "r", "n", "o", " ", "2", "1", "]", " ", "I", "s", " ", "a", " ", "d", "i", "r", "e", "c", "t", "o", "r", "y", ":", " ">>
          \o Repr(StrOfPath(e.arg))
      [] e.type = "FileExistsError" ->
          <<"[", "E", "r", "r", "n", "o", " ", "1", "7", "]", " ", "F", "i", "l", "e", " ", "e", "x", "i", "s", "t", "s", ":", " ">>
          \o Repr(StrOfPath(e.arg))

\* one item of a tool_input dict
Item(key, value) == [key |-> key, value |-> value]

\* the keys of a tool_input dict
Keys(tool_input) == {tool_input[j].key : j \in 1..Len(tool_input)}

\* tool_input[key], for a key the dict holds
Get(tool_input, key) ==
    tool_input[CHOOSE j \in 1..Len(tool_input) : tool_input[j].key = key].value

\* the ", "-joined 'key': repr(value) of the items of the dict from the k-th
\* on, in the order the dict holds them, which is the order of insertion
RECURSIVE ReprItems(_, _)
ReprItems(tool_input, k) ==
    IF k > Len(tool_input) THEN <<>>
    ELSE (IF k = 1 THEN <<>> ELSE <<",", " ">>)
         \o Repr(Chars(tool_input[k].key)) \o <<":", " ">>
         \o Repr(IF tool_input[k].key = "path" THEN StrOfPath(tool_input[k].value)
                 ELSE tool_input[k].value)
         \o ReprItems(tool_input, k + 1)

\* str(tool_input) of line 115: the repr of the dict
ReprInput(tool_input) == <<"{">> \o ReprItems(tool_input, 1) \o <<"}">>

\* line 168 and 170: one line of a listing
ItemChars(line) ==
    IF line.fmt = "[DIR]  {item}/"
    THEN <<"[", "U76EE", "U5F55", "]", " ", " ">> \o Chars(line.item) \o <<"/">>
    ELSE <<"[", "U6587", "U4EF6", "]", " ">> \o Chars(line.item)

\* line 175: "\n".join(items)
RECURSIVE JoinLines(_)
JoinLines(items) ==
    IF items = <<>> THEN <<>>
    ELSE IF Len(items) = 1 THEN ItemChars(items[1])
    ELSE ItemChars(items[1]) \o <<"\n">> \o JoinLines(Tail(items))

\* the characters of a result of the tool executor, by the f-string it comes from
Render(text) ==
    CASE text.fmt = "File {path} content:\n{content}" ->
          <<"U6587", "U4EF6", " ">> \o StrOfPath(text.path)
          \o <<" ", "U7684", "U5185", "U5BB9", ":", "\n">> \o text.content
      [] text.fmt = "File not found: {path}" ->
          <<"U6587", "U4EF6", "U672A", "U627E", "U5230", ":", " ">>
          \o StrOfPath(text.path)
      [] text.fmt = "Error reading file: {e}" ->
          <<"U8BFB", "U53D6", "U6587", "U4EF6", "U65F6", "U51FA", "U9519", ":", " ">>
          \o StrOfExc(text.e)
      [] text.fmt = "Path not found: {path}" ->
          <<"U8DEF", "U5F84", "U672A", "U627E", "U5230", ":", " ">>
          \o StrOfPath(text.path)
      [] text.fmt = "Empty directory: {path}" ->
          <<"U7A7A", "U76EE", "U5F55", ":", " ">> \o StrOfPath(text.path)
      [] text.fmt = "{path} content:\n{items}" ->
          StrOfPath(text.path) \o <<" ", "U7684", "U5185", "U5BB9", ":", "\n">>
          \o JoinLines(text.items)
      [] text.fmt = "Error listing files: {e}" ->
          <<"U5217", "U51FA", "U6587", "U4EF6", "U65F6", "U51FA", "U9519", ":", " ">>
          \o StrOfExc(text.e)
      [] text.fmt = "Text not found in file: {old_text}" ->
          <<"U6587", "U4EF6", "U4E2D", "U672A", "U627E", "U5230", "U6587", "U672C", ":", " ">>
          \o text.old_text
      [] text.fmt = "Successfully edited {path}" ->
          <<"U6210", "U529F", "U7F16", "U8F91", " ">> \o StrOfPath(text.path)
      [] text.fmt = "Successfully created {path}" ->
          <<"U6210", "U529F", "U521B", "U5EFA", " ">> \o StrOfPath(text.path)
      [] text.fmt = "Error editing file: {e}" ->
          <<"U7F16", "U8F91", "U6587", "U4EF6", "U65F6", "U51FA", "U9519", ":", " ">>
          \o StrOfExc(text.e)
      [] text.fmt = "Unknown tool: {tool_name}" ->
          <<"U672A", "U77E5", "U5DE5", "U5177", ":", " ">> \o Chars(text.tool_name)
      [] text.fmt = "Error executing {tool_name}: {e}" ->
          <<"U6267", "U884C", " ">> \o Chars(text.tool_name)
          \o <<" ", "U65F6", "U51FA", "U9519", ":", " ">> \o StrOfExc(text.e)

\* s[:n]
Slice(s, n) == SubSeq(s, 1, IF Len(s) < n THEN Len(s) ELSE n)

-----------------------------------------------------------------------------
(* Logging: lines 18-22 *)

\* %(asctime)s: "YYYY-MM-DD hh:mm:ss,mmm", the clock's reading; "#" is a digit
Asctime ==
    <<"#", "#", "#", "#", "-", "#", "#", "-", "#", "#", " ",
      "#", "#", ":", "#", "#", ":", "#", "#", ",", "#", "#", "#">>

\* format="%(asctime)s - %(message)s" and the line end the handler adds: one
\* record of the log file
LogRecord(message) == Asctime \o <<" ", "-", " ">> \o message \o <<"\n">>

\* logging.info(message), logging.error(message): the FileHandler of line 21,
\* opened for appending when the module is loaded, writes the record at the end
\* of agent.log, whatever the file then holds, and flushes
Logged(t, message) ==
    [t EXCEPT ![LogPath] = FileNode(t[LogPath].data \o LogRecord(message))]

-----------------------------------------------------------------------------
(* str operations *)

\* old_text in content
Contains(content, old) ==
    \E k \in 1..(Len(content) - Len(old) + 1) :
        SubSeq(content, k, k + Len(old) - 1) = old

\* content.replace(old_text, new_text) for a non-empty old_text: every
\* occurrence, found left to right, none overlapping an earlier one
RECURSIVE Replace(_, _, _)
Replace(content, old, new) ==
    LET found == {k \in 1..(Len(content) - Len(old) + 1) :
                     SubSeq(content, k, k + Len(old) - 1) = old}
    IN IF found = {} THEN content
       ELSE LET first == CHOOSE k \in found : \A l \in found : k <= l
            IN SubSeq(content, 1, first - 1) \o new
               \o Replace(SubSeq(content, first + Len(old), Len(content)), old, new)

\* the names in descending order, as sorted(names, reverse=True) gives them
RECURSIVE SortedDescending(_)
SortedDescending(S) ==
    IF S = {} THEN <<>>
    ELSE LET m == CHOOSE x \in S : \A y \in S : Ord(x) >= Ord(y)
         IN <<m>> \o SortedDescending(S \ {m})

\* sorted(names): ascending by code point
RECURSIVE Sorted(_)
Sorted(S) ==
    IF S = {} THEN <<>>
    ELSE LET m == CHOOSE x \in S : \A y \in S : Ord(x) <= Ord(y)
         IN <<m>> \o Sorted(S \ {m})

-----------------------------------------------------------------------------
(* The tool executor.  Every tool operator yields [ret, fs, ops]: the string *)
(* returned, the file tree afterwards, and the file-system calls made.       *)

Out(ret, t, ops) == [ret |-> ret, fs |-> t, ops |-> ops]

\* AIAgent._read_file
\*   "文件 {path} 的内容:\n{content}" | "文件未找到: {path}" | "读取文件时出错: {e}"
_read_file(t, path) ==
    LET r == OpenRead(t, path) IN
    IF r.ok
    THEN Out([fmt |-> "File {path} content:\n{content}", path |-> path,
              content |-> r.data], t, <<"open_r">>)
    ELSE IF r.exc.type = "FileNotFoundError"
    THEN Out([fmt |-> "File not found: {path}", path |-> path], t, <<"open_r">>)
    ELSE Out([fmt |-> "Error reading file: {e}", e |-> r.exc], t, <<"open_r">>)

\* lines 166-170: one line of the listing
\*   "[目录]  {item}/" | "[文件] {item}"
ItemLine(t, path, item) ==
    IF IsDir(t, Join(path, item))
    THEN [fmt |-> "[DIR]  {item}/", item |-> item]
    ELSE [fmt |-> "[FILE] {item}", item |-> item]

\* lines 164-170: the lines of the listing, over sorted(os.listdir(path))
ItemLines(t, path, names) ==
    LET order == Sorted(names)
    IN [k \in 1..Len(order) |-> ItemLine(t, path, order[k])]

\* AIAgent._list_files
\*   "路径未找到: {path}" | "空目录: {path}" | "{path} 的内容:\n" + "\n".join(items)
\*   | "列出文件时出错: {e}"
_list_files(t, path) ==
    IF ~PathExists(t, path)
    THEN Out([fmt |-> "Path not found: {path}", path |-> path], t, <<"exists">>)
    ELSE LET r == ListDir(t, path) IN
         IF ~r.ok
         THEN Out([fmt |-> "Error listing files: {e}", e |-> r.exc], t,
                  <<"exists", "listdir">>)
         ELSE LET items == ItemLines(t, path, r.names)
                  ops == <<"exists", "listdir">> \o [k \in 1..Len(items) |-> "isdir"]
              IN IF items = <<>>
                 THEN Out([fmt |-> "Empty directory: {path}", path |-> path], t, ops)
                 ELSE Out([fmt |-> "{path} content:\n{items}", path |-> path,
                           items |-> items], t, ops)

EditError(e, t, ops) == Out([fmt |-> "Error editing file: {e}", e |-> e], t, ops)

\* lines 192-204 of AIAgent._edit_file, the branch taken when the file exists and
\* old_text is not empty
\*   "文件中未找到文本: {old_text}" | "成功编辑 {path}"
EditReplace(t, path, old_text, new_text) ==
    LET r == OpenRead(t, path) IN
    IF ~r.ok THEN EditError(r.exc, t, <<"exists", "open_r">>)
    ELSE IF ~Contains(r.data, old_text)
    THEN Out([fmt |-> "Text not found in file: {old_text}", old_text |-> old_text],
             t, <<"exists", "open_r">>)
    ELSE LET w == OpenWrite(t, path, Replace(r.data, old_text, new_text)) IN
         IF ~w.ok THEN EditError(w.exc, w.fs, <<"exists", "open_r", "open_w">>)
         ELSE Out([fmt |-> "Successfully edited {path}", path |-> path], w.fs,
                  <<"exists", "open_r", "open_w">>)

\* lines 206-215 of AIAgent._edit_file, the else branch
\*   "成功创建 {path}"
EditCreate(t, path, new_text) ==
    LET dir_name == DirName(path)
        m == IF dir_name # <<>> THEN MakeDirs(t, dir_name) ELSE [ok |-> TRUE, fs |-> t]
        mops == IF dir_name # <<>> THEN <<"exists", "makedirs">> ELSE <<"exists">>
    IN IF ~m.ok THEN EditError(m.exc, m.fs, mops)
       ELSE LET w == OpenWrite(m.fs, path, new_text) IN
            IF ~w.ok THEN EditError(w.exc, w.fs, Append(mops, "open_w"))
            ELSE Out([fmt |-> "Successfully created {path}", path |-> path], w.fs,
                     Append(mops, "open_w"))

\* line 191 without "and old_text": every existing path is edited by replacement
ReplaceModeIgnoresOldText(t, path, old_text) == PathExists(t, path)

\* line 191: os.path.exists(path) and old_text
ReplaceMode(t, path, old_text) == PathExists(t, path) /\ old_text # <<>>

\* AIAgent._edit_file;  the except of line 216 gives "编辑文件时出错: {e}"
_edit_file(t, path, old_text, new_text) ==
    IF ReplaceMode(t, path, old_text)
    THEN EditReplace(t, path, old_text, new_text)
    ELSE EditCreate(t, path, new_text)

ToolNames == {"read_file", "list_files", "edit_file"}

\* the except of line 129 for the KeyError of tool_input[key]: the text
\* "执行 {tool_name} 时出错: {e}" is logged (line 130) and returned (line 131)
MissingKey(t, tool_name, key) ==
    LET text == [fmt |-> "Error executing {tool_name}: {e}", tool_name |-> tool_name,
                 e |-> Exc("KeyError", key)]
    IN Out(text, Logged(t, Render(text)), <<>>)

\* line 128 without the f prefix: the name is not interpolated
UnknownToolNoName(t, tool_name) ==
    Out([fmt |-> "Unknown tool: {tool_name}", tool_name |-> "{tool_name}"], t, <<>>)

\* line 128: "未知工具: {tool_name}"
UnknownTool(t, tool_name) ==
    Out([fmt |-> "Unknown tool: {tool_name}", tool_name |-> tool_name], t, <<>>)

\* line 115: logging.info("执行工具: {tool_name} 输入: {tool_input}")
Invocation(tool_name, tool_input) ==
    <<"U6267", "U884C", "U5DE5", "U5177", ":", " ">> \o Chars(tool_name)
        \o <<" ", "U8F93", "U5165", ":", " ">> \o ReprInput(tool_input)

\* the dispatch with tool_input.get(key, default) for every argument: a missing
\* path is ".", a missing text is ""
DispatchWithDefaults(t, tool_name, tool_input) ==
    LET Arg(k) == IF k \in Keys(tool_input) THEN Get(tool_input, k) ELSE <<>> IN
    IF tool_name = "read_file" THEN _read_file(t, Arg("path"))
    ELSE IF tool_name = "list_files" THEN _list_files(t, Arg("path"))
    ELSE IF tool_name = "edit_file"
    THEN _edit_file(t, Arg("path"), Arg("old_text"), Arg("new_text"))
    ELSE UnknownTool(t, tool_name)

\* lines 116-131 of AIAgent._execute_tool: the dispatch on the name, in the try
Dispatch(t, tool_name, tool_input) ==
    IF tool_name = "read_file"
    THEN IF "path" \notin Keys(tool_input) THEN MissingKey(t, tool_name, "path")
         ELSE _read_file(t, Get(tool_input, "path"))
    ELSE IF tool_name = "list_files"
    THEN _list_files(t, IF "path" \in Keys(tool_input)
                        THEN Get(tool_input, "path") ELSE <<>>)
    ELSE IF tool_name = "edit_file"
    THEN IF "path" \notin Keys(tool_input) THEN MissingKey(t, tool_name, "path")
         ELSE IF "new_text" \notin Keys(tool_input)
         THEN MissingKey(t, tool_name, "new_text")
         ELSE _edit_file(t, Get(tool_input, "path"),
                         IF "old_text" \in Keys(tool_input)
                         THEN Get(tool_input, "old_text") ELSE <<>>,
                         Get(tool_input, "new_text"))
    ELSE UnknownTool(t, tool_name)

\* _execute_tool without the try/except of lines 116 and 129: the KeyError of a
\* missing argument and an unknown name leave it as exceptions
ExecuteToolUncaught(t, tool_name, tool_input) ==
    LET r == Dispatch(Logged(t, Invocation(tool_name, tool_input)), tool_name, tool_input)
    IN [ret |-> r.ret, fs |-> r.fs, ops |-> r.ops,
        raised |-> r.ret.fmt \in {"Unknown tool: {tool_name}",
                                  "Error executing {tool_name}: {e}"}]

\* AIAgent._execute_tool, lines 115-131: the invocation is logged, then
\* dispatched; no exception leaves it
_execute_tool(t, tool_name, tool_input) ==
    CHOOSE r \in {Dispatch(logged, tool_name, tool_input) @@ [raised |-> FALSE] :
                     logged \in {Logged(t, Invocation(tool_name, tool_input))}} : TRUE

-----------------------------------------------------------------------------
(* Inputs *)

\* old_text values: empty, one that occurs more than once in a file, one that
\* occurs in none, and one that ends a line
OldTexts == {<<>>, <<"a">>, <<"b", "b">>, <<"a", "\n">>}

\* new_text values: empty, a letter, and one that holds a carriage return
NewTexts == {<<>>, <<"a">>, <<"a", "\r">>}

\* what the files of an initial tree hold: a text with two occurrences of "a",
\* and a text with a CRLF line ending
FileTexts == {<<"a", "b", "a">>, <<"a", "\r", "\n", "a">>}

\* the trees a working directory can hold over Paths and FileTexts once the
\* module is loaded: line 21 has opened agent.log, here a new file
Trees ==
    {t \in [Paths -> {NoNode, DirNode} \cup {FileNode(c) : c \in FileTexts \cup {<<>>}}] :
        /\ WellFormed(t)
        /\ t[LogPath] = FileNode(<<>>)
        /\ \A p \in ToolPaths : t[p].kind = "file" => t[p].data \in FileTexts}

\* the path strs a tool is given: every place of the tree, the log file's
\* included, the empty str, and two paths that end in "/"
ArgPaths == Paths \cup {<<"">>, <<"d", "">>, <<"d", "f", "">>}

\* the values an argument can take: a path, or a text for old_text and new_text
ArgValues(k) ==
    IF k = "path" THEN ArgPaths ELSE IF k = "old_text" THEN OldTexts ELSE NewTexts

\* the items a dict over the keys can hold
Items(keys) == UNION {{Item(k, v) : v \in ArgValues(k)} : k \in keys}

\* the dicts over a subset of the keys, in every order of insertion
Mappings(keys) ==
    UNION {{m \in [1..n -> Items(keys)] :
               \A j \in 1..n : \A l \in 1..n : j # l => m[j].key # m[l].key} :
           n \in 0..Cardinality(keys)}

\* a name the dispatch of lines 117-128 does not know
OtherNames == {"delete_file", "write_file"}

\* the argument mappings a ToolUse block can carry for each tool: any subset of
\* the properties of its input_schema (lines 56-101), in any order; a name
\* that has no schema comes with a path, a new_text, both or neither
ToolInputs(tool_name) ==
    IF tool_name = "edit_file"
    THEN Mappings({"path", "old_text", "new_text"})
    ELSE IF tool_name \in OtherNames
    THEN Mappings({"path", "new_text"})
    ELSE Mappings({"path"})

NoCall == [name |-> "none"]

\* the record kept of one _execute_tool call
CallRecord(t, tool_name, tool_input, r) ==
    [name |-> tool_name, input |-> tool_input, before |-> t,
     ret |-> r.ret, ops |-> r.ops, raised |-> r.raised]

-----------------------------------------------------------------------------
(* The tool executor called on its own: one call on any tree *)

\* the state after the module is loaded (lines 18-22) and AIAgent(api_key)
\* constructed, in a working directory holding any tree
ToolInit ==
    /\ fs \in Trees
    /\ last = NoCall
    /\ messages = <<>>
    /\ pc = "idle"
    /\ response = <<>>
    /\ i = 0
    /\ tool_results = <<>>
    /\ returned = [fmt |-> "none"]
    /\ nCalls = 0
    /\ nTurns = 0
    /\ execLog = <<>>
    /\ turnStart = [calls |-> 0, execs |-> 0, msgs |-> 0]
    /\ nRaised = 0

Execute(tool_name, tool_input) ==
    /\ last = NoCall
    /\ LET r == _execute_tool(fs, tool_name, tool_input)
       IN /\ fs' = r.fs
          /\ last' = CallRecord(fs, tool_name, tool_input, r)
    /\ UNCHANGED chatVars

ToolNext ==
    \E tool_name \in ToolNames \cup OtherNames :
        \E tool_input \in ToolInputs(tool_name) : Execute(tool_name, tool_input)

ToolSpec == ToolInit /\ [][ToolNext]_vars

-----------------------------------------------------------------------------
(* The orchestration loop, AIAgent.chat.  A transcript entry is the dict    *)
(* {"role", "content"}; a content that is a str (line 229) is the sequence  *)
(* of one block of type "str", a content that is a list is the sequence of  *)
(* its blocks.  A ToolUse id is a number, fresh for every block.            *)

MaxCalls == 2   \* Model Client calls in one session

UserInputs == {"hello"}

TextBlock(text) == [type |-> "text", text |-> text]
ToolUseBlock(id, name, input) ==
    [type |-> "tool_use", id |-> id, name |-> name, input |-> input]

\* the blocks a response is made of, ids apart: two texts, a read of f, the
\* creation of f, an edit of f whose old_text f never holds, the use of a tool
\* that does not exist, and an edit_file pointed at agent.log, which it
\* truncates; two of the dicts hold their keys in another order than the schema
ModelBlocks ==
    {TextBlock("hi"), TextBlock("ok"),
     ToolUseBlock(0, "read_file", <<Item("path", <<"f">>)>>),
     ToolUseBlock(0, "edit_file", <<Item("path", <<"f">>), Item("new_text", <<"a">>)>>),
     ToolUseBlock(0, "edit_file", <<Item("new_text", <<"a", "\r">>),
                                    Item("old_text", <<"b", "b">>),
                                    Item("path", <<"f">>)>>),
     ToolUseBlock(0, "delete_file", <<Item("path", <<"f">>)>>),
     ToolUseBlock(0, "edit_file", <<Item("new_text", <<"a">>), Item("path", LogPath)>>)}

\* response.content, ids apart: up to two blocks
ResponseShapes ==
    {<<>>} \cup {<<b>> : b \in ModelBlocks} \cup {<<b, c>> : b \in ModelBlocks, c \in ModelBlocks}

\* what the Model Client call of line 244 can raise
ModelErrors == {"APIConnectionError"}

\* the ToolUse blocks among the first k blocks of a content
ToolUsesUpTo(content, k) == {j \in 1..k : content[j].type = "tool_use"}

\* the service numbers the ToolUse blocks of a response: ids never repeat
WithIds(shape, issued) ==
    [k \in 1..Len(shape) |->
        IF shape[k].type = "tool_use"
        THEN ToolUseBlock(issued + Cardinality(ToolUsesUpTo(shape, k)),
                          shape[k].name, shape[k].input)
        ELSE shape[k]]

RECURSIVE SelectBlocks(_, _)
SelectBlocks(content, types) ==
    IF content = <<>> THEN <<>>
    ELSE IF content[1].type \in types
         THEN <<content[1]>> \o SelectBlocks(Tail(content), types)
         ELSE SelectBlocks(Tail(content), types)

\* the assistant message without the elif of line 260: ToolUse blocks are dropped
AssistantMessageTextOnly(content) ==
    [role |-> "assistant", content |-> SelectBlocks(content, {"text"})]

\* lines 253-268: the assistant message built from response.content
AssistantMessage(content) ==
    [role |-> "assistant", content |-> SelectBlocks(content, {"text", "tool_use"})]

\* line 229
UserMessage(user_input) ==
    [role |-> "user", content |-> <<[type |-> "str", text |-> user_input]>>]

\* lines 280-286
ToolResultBlock(id, result) ==
    [type |-> "tool_result", tool_use_id |-> id, content |-> result]

\* response.content[-1].text for the response.content[0].text of line 293
FinalTextLastBlock(content) ==
    IF content # <<>> THEN [fmt |-> "{text}", text |-> content[Len(content)].text]
    ELSE [fmt |-> ""]

\* line 293: response.content[0].text if response.content else ""
FinalText(content) ==
    IF content # <<>> THEN [fmt |-> "{text}", text |-> content[1].text] ELSE [fmt |-> ""]

\* line 296: "错误: {e}"
ErrorText(e) == [fmt |-> "Error: {e}", e |-> e]

\* an empty working directory in which the module has been loaded: line 21 has
\* created agent.log
EmptyTree ==
    [p \in Paths |-> IF p = <<>> THEN DirNode
                     ELSE IF p = LogPath THEN FileNode(<<>>) ELSE NoNode]

\* the state after the module is loaded (lines 18-22) and AIAgent(api_key)
\* constructed, in an empty working directory
Init ==
    /\ fs = EmptyTree
    /\ last = NoCall
    /\ messages = <<>>
    /\ pc = "idle"
    /\ response = <<>>
    /\ i = 0
    /\ tool_results = <<>>
    /\ returned = [fmt |-> "none"]
    /\ nCalls = 0
    /\ nTurns = 0
    /\ execLog = <<>>
    /\ turnStart = [calls |-> 0, execs |-> 0, msgs |-> 0]
    /\ nRaised = 0

\* line 228: logging.info("用户输入: {user_input}")
UserInputLine(user_input) ==
    <<"U7528", "U6237", "U8F93", "U5165", ":", " ">> \o Chars(user_input)

\* lines 277-279: logging.info("工具结果: {result[:500]}...")
ResultLine(result) ==
    <<"U5DE5", "U5177", "U7ED3", "U679C", ":", " ">> \o Slice(Render(result), 500)
    \o <<".", ".", ".">>

\* a chat that starts each turn from a fresh transcript
ChatResetsTranscript(user_input) ==
    /\ pc = "idle"
    /\ nCalls < MaxCalls
    /\ messages' = <<UserMessage(user_input)>>
    /\ nTurns' = nTurns + 1
    /\ pc' = "call"
    /\ turnStart' = [calls |-> nCalls, execs |-> Len(execLog), msgs |-> 0]
    /\ fs' = Logged(fs, UserInputLine(user_input))
    /\ UNCHANGED <<last, response, i, tool_results, returned, nCalls, execLog, nRaised>>

\* chat(user_input) up to the first Model Client call: lines 228-239; the input
\* is logged and appended to the transcript
Chat(user_input) ==
    /\ pc = "idle"
    /\ nCalls < MaxCalls
    /\ messages' = Append(messages, UserMessage(user_input))
    /\ nTurns' = nTurns + 1
    /\ pc' = "call"
    /\ turnStart' = [calls |-> nCalls, execs |-> Len(execLog), msgs |-> Len(messages)]
    /\ fs' = Logged(fs, UserInputLine(user_input))
    /\ UNCHANGED <<last, response, i, tool_results, returned, nCalls, execLog, nRaised>>

\* a loop that appends the assistant message only when it holds a block
ModelRespondsSkipsEmpty(shape) ==
    /\ pc = "call"
    /\ nCalls < MaxCalls
    /\ nCalls' = nCalls + 1
    /\ response' = WithIds(shape, Len(execLog))
    /\ messages' = IF shape = <<>> THEN messages
                   ELSE Append(messages, AssistantMessage(response'))
    /\ tool_results' = <<>>
    /\ i' = 1
    /\ pc' = "tools"
    /\ UNCHANGED <<fs, last, returned, nTurns, execLog, turnStart, nRaised>>

\* lines 244-273: the Model Client call returns, the assistant message is appended
ModelResponds(shape) ==
    /\ pc = "call"
    /\ nCalls < MaxCalls
    /\ nCalls' = nCalls + 1
    /\ response' = WithIds(shape, Len(execLog))
    /\ messages' = Append(messages, AssistantMessage(response'))
    /\ tool_results' = <<>>
    /\ i' = 1
    /\ pc' = "tools"
    /\ UNCHANGED <<fs, last, returned, nTurns, execLog, turnStart, nRaised>>

\* a failed call that takes its request back out of the transcript
ModelRaisesDropsRequest(e) ==
    /\ pc = "call"
    /\ nCalls < MaxCalls
    /\ nCalls' = nCalls + 1
    /\ returned' = ErrorText(e)
    /\ pc' = "idle"
    /\ messages' = SubSeq(messages, 1, Len(messages) - 1)
    /\ nRaised' = nRaised + 1
    /\ UNCHANGED <<fs, last, response, i, tool_results, nTurns, execLog, turnStart>>

\* lines 244, 295-296: the Model Client call raises
ModelRaises(e) ==
    /\ pc = "call"
    /\ nCalls < MaxCalls
    /\ nCalls' = nCalls + 1
    /\ returned' = ErrorText(e)
    /\ pc' = "idle"
    /\ nRaised' = nRaised + 1
    /\ UNCHANGED <<fs, last, messages, response, i, tool_results, nTurns, execLog,
                   turnStart>>

\* the for loop with tool_results.insert(0, ...) for the append of line 280
ToolStepPrepends ==
    /\ pc = "tools"
    /\ i <= Len(response)
    /\ IF response[i].type = "tool_use"
       THEN LET r == _execute_tool(fs, response[i].name, response[i].input) IN
            /\ fs' = Logged(r.fs, ResultLine(r.ret))
            /\ last' = CallRecord(fs, response[i].name, response[i].input, r)
            /\ execLog' = Append(execLog, [id |-> response[i].id,
                                           name |-> response[i].name,
                                           input |-> response[i].input])
            /\ tool_results' = <<ToolResultBlock(response[i].id, r.ret)>> \o tool_results
            /\ i' = i + 1
            /\ UNCHANGED <<pc, returned>>
       ELSE /\ i' = i + 1
            /\ UNCHANGED <<fs, last, execLog, tool_results, pc, returned>>
    /\ UNCHANGED <<messages, response, nCalls, nTurns, turnStart, nRaised>>

\* a for loop that runs every call of a response on the tree as it was when the
\* response arrived
ToolStepOnSnapshot ==
    /\ pc = "tools"
    /\ i <= Len(response)
    /\ IF response[i].type = "tool_use"
       THEN LET t == IF tool_results # <<>>
                     THEN [last.before EXCEPT ![LogPath] = fs[LogPath]] ELSE fs
                r == _execute_tool(t, response[i].name, response[i].input) IN
            /\ fs' = Logged(r.fs, ResultLine(r.ret))
            /\ last' = CallRecord(t, response[i].name, response[i].input, r)
            /\ execLog' = Append(execLog, [id |-> response[i].id,
                                           name |-> response[i].name,
                                           input |-> response[i].input])
            /\ tool_results' = Append(tool_results, ToolResultBlock(response[i].id, r.ret))
            /\ i' = i + 1
            /\ UNCHANGED <<pc, returned>>
       ELSE /\ i' = i + 1
            /\ UNCHANGED <<fs, last, execLog, tool_results, pc, returned>>
    /\ UNCHANGED <<messages, response, nCalls, nTurns, turnStart, nRaised>>

\* lines 274-286: one pass of the for loop over response.content; a ToolUse
\* block is executed, its result logged and appended to tool_results
ToolStep ==
    /\ pc = "tools"
    /\ i <= Len(response)
    /\ IF response[i].type = "tool_use"
       THEN \E r \in {_execute_tool(fs, response[i].name, response[i].input)} :
            /\ fs' = IF r.raised THEN r.fs ELSE Logged(r.fs, ResultLine(r.ret))
            /\ last' = CallRecord(fs, response[i].name, response[i].input, r)
            /\ execLog' = Append(execLog, [id |-> response[i].id,
                                           name |-> response[i].name,
                                           input |-> response[i].input])
            /\ IF r.raised
               THEN /\ returned' = ErrorText(r.ret)
                    /\ pc' = "idle"
                    /\ UNCHANGED <<i, tool_results>>
               ELSE /\ tool_results' = Append(tool_results,
                                              ToolResultBlock(response[i].id, r.ret))
                    /\ i' = i + 1
                    /\ UNCHANGED <<pc, returned>>
       ELSE /\ i' = i + 1
            /\ UNCHANGED <<fs, last, execLog, tool_results, pc, returned>>
    /\ UNCHANGED <<messages, response, nCalls, nTurns, turnStart, nRaised>>

\* the end of the loop body without the else of line 291: it never returns
LoopEndAlwaysContinues ==
    /\ pc = "tools"
    /\ i > Len(response)
    /\ messages' = Append(messages, [role |-> "user", content |-> tool_results])
    /\ pc' = "call"
    /\ UNCHANGED <<fs, last, response, i, tool_results, returned, nCalls, nTurns,
                   execLog, turnStart, nRaised>>

\* a loop that calls the model again without handing the results over
LoopEndSkipsResults ==
    /\ pc = "tools"
    /\ i > Len(response)
    /\ IF tool_results # <<>>
       THEN /\ pc' = "call"
            /\ UNCHANGED <<messages, returned>>
       ELSE /\ returned' = FinalText(response)
            /\ pc' = "idle"
            /\ UNCHANGED messages
    /\ UNCHANGED <<fs, last, response, i, tool_results, nCalls, nTurns, execLog,
                   turnStart, nRaised>>

\* a loop capped at one Model Client call per turn: it returns after the for loop
\* whether or not tools ran
LoopEndOneCallPerTurn ==
    /\ pc = "tools"
    /\ i > Len(response)
    /\ messages' = IF tool_results # <<>>
                   THEN Append(messages, [role |-> "user", content |-> tool_results])
                   ELSE messages
    /\ returned' = FinalText(SelectBlocks(response, {"text"}))
    /\ pc' = "idle"
    /\ UNCHANGED <<fs, last, response, i, tool_results, nCalls, nTurns, execLog,
                   turnStart, nRaised>>

\* lines 288-293: after the for loop
LoopEnd ==
    /\ pc = "tools"
    /\ i > Len(response)
    /\ IF tool_results # <<>>
       THEN /\ messages' = Append(messages, [role |-> "user", content |-> tool_results])
            /\ pc' = "call"
            /\ UNCHANGED returned
       ELSE /\ returned' = FinalText(response)
            /\ pc' = "idle"
            /\ UNCHANGED messages
    /\ UNCHANGED <<fs, last, response, i, tool_results, nCalls, nTurns, execLog,
                   turnStart, nRaised>>

Next ==
    \/ \E user_input \in UserInputs : Chat(user_input)
    \/ \E shape \in ResponseShapes : ModelResponds(shape)
    \/ \E e \in ModelErrors : ModelRaises(e)
    \/ ToolStep
    \/ LoopEnd

Spec == Init /\ [][Next]_vars

\* the loop body is sequential code on local files: once a response is in, the
\* for loop and the test after it run to their end.  Nothing is assumed of the
\* Model Client call, which may never return.
FairSpec == Spec /\ WF_vars(ToolStep) /\ WF_vars(LoopEnd)

-----------------------------------------------------------------------------
(* Properties of the orchestration loop *)

ToolUses(content) == SelectBlocks(content, {"tool_use"})

IsResultsMessage(m) ==
    m.role = "user" /\ m.content # <<>> /\ m.content[1].type = "tool_result"

\* the index in the transcript of the first response of the current turn
FirstResponse == turnStart.msgs + 2

\* the assistant messages appended in the current turn
TurnAssistants == {k \in (turnStart.msgs + 1)..Len(messages) : messages[k].role = "assistant"}

\* the ToolUse blocks of the assistant messages of a transcript, in order
RECURSIVE AllToolUses(_)
AllToolUses(msgs) ==
    IF msgs = <<>> THEN <<>>
    ELSE (IF msgs[1].role = "assistant" THEN ToolUses(msgs[1].content) ELSE <<>>)
         \o AllToolUses(Tail(msgs))

\* the ToolUse blocks the loop has handed to the executor so far
HandedOver ==
    IF pc = "tools"
    THEN AllToolUses(SubSeq(messages, 1, Len(messages) - 1))
         \o ToolUses(SubSeq(response, 1, i - 1))
    ELSE AllToolUses(messages)

\* the strings with which a tool reports a failure
FailureFormats ==
    {"File not found: {path}", "Error reading file: {e}", "Path not found: {path}",
     "Error listing files: {e}", "Text not found in file: {old_text}",
     "Error editing file: {e}", "Unknown tool: {tool_name}",
     "Error executing {tool_name}: {e}"}

\* C1: when the first response of a turn holds no ToolUse block, the turn makes
\* exactly one Model Client call, never invokes _execute_tool, appends nothing
\* after that response, and chat returns the text of the response's first block
\* (the empty string for a response without blocks).
C1_NoToolUseOneCall ==
    (/\ nTurns > 0
     /\ Len(messages) >= FirstResponse
     /\ ToolUses(messages[FirstResponse].content) = <<>>) =>
        /\ nCalls = turnStart.calls + 1
        /\ Len(execLog) = turnStart.execs
        /\ Len(messages) = FirstResponse
        /\ pc \in {"tools", "idle"}
        /\ pc = "idle" =>
              returned = IF messages[FirstResponse].content = <<>>
                         THEN [fmt |-> ""]
                         ELSE [fmt |-> "{text}",
                               text |-> messages[FirstResponse].content[1].text]

\* a turn whose only response was the two texts "ok", "hi" has returned "ok"
C1_Witness ==
    /\ pc = "idle"
    /\ Len(messages) = FirstResponse
    /\ Len(messages[FirstResponse].content) = 2
    /\ returned = [fmt |-> "{text}", text |-> "ok"]
    /\ messages[FirstResponse].content[2].text = "hi"

\* C2: for a response with N >= 1 ToolUse blocks the loop invokes _execute_tool
\* exactly N times in the order of the blocks (the log of invocations is the
\* ToolUse blocks handed over so far, in order), then appends exactly one user
\* message holding N ToolResult blocks whose tool_use_id follow the blocks' ids in
\* order, and chat does not return before another Model Client call: a finished
\* turn whose last message holds ToolResults made one call more than it has
\* assistant messages, and returned that call's error.
C2_ToolRoundTrip ==
    /\ execLog = [k \in 1..Len(HandedOver) |->
                    [id |-> HandedOver[k].id, name |-> HandedOver[k].name,
                     input |-> HandedOver[k].input]]
    /\ \A k \in 1..Len(messages) :
          (/\ messages[k].role = "assistant"
           /\ ToolUses(messages[k].content) # <<>>
           /\ (k < Len(messages) \/ pc # "tools")) =>
              /\ k + 1 <= Len(messages)
              /\ messages[k + 1].role = "user"
              /\ Len(messages[k + 1].content) = Len(ToolUses(messages[k].content))
              /\ \A j \in 1..Len(messages[k + 1].content) :
                    /\ messages[k + 1].content[j].type = "tool_result"
                    /\ messages[k + 1].content[j].tool_use_id =
                           ToolUses(messages[k].content)[j].id
              /\ (k + 2 <= Len(messages) => ~IsResultsMessage(messages[k + 2]))
    /\ (pc = "idle" /\ messages # <<>> /\ IsResultsMessage(messages[Len(messages)])) =>
          /\ returned.fmt = "Error: {e}"
          /\ nCalls - turnStart.calls = Cardinality(TurnAssistants) + 1

\* a response with two ToolUse blocks was answered by two ToolResult blocks and
\* the loop is at its next Model Client call
C2_Witness ==
    /\ pc = "call"
    /\ messages # <<>>
    /\ IsResultsMessage(messages[Len(messages)])
    /\ Len(messages[Len(messages)].content) = 2
    /\ Len(execLog) = 2

\* C3: every ToolResult block of the transcript sits in a message right after an
\* assistant message that holds a ToolUse block with the same id.
C3_ResultFollowsItsToolUse ==
    \A k \in 1..Len(messages) : \A j \in 1..Len(messages[k].content) :
        messages[k].content[j].type = "tool_result" =>
            /\ k > 1
            /\ messages[k - 1].role = "assistant"
            /\ \E u \in 1..Len(messages[k - 1].content) :
                  /\ messages[k - 1].content[u].type = "tool_use"
                  /\ messages[k - 1].content[u].id = messages[k].content[j].tool_use_id

\* the transcript holds a ToolResult for the second ToolUse block of a response
\* that opened with a text
C3_Witness ==
    \E k \in 2..Len(messages) :
        /\ IsResultsMessage(messages[k])
        /\ Len(messages[k - 1].content) = 2
        /\ messages[k - 1].content[1].type = "text"
        /\ messages[k].content[1].tool_use_id = messages[k - 1].content[2].id

\* C4: a step in which the Model Client call raises ends the turn at once: chat
\* returns the error string, and the transcript (like the file tree) is what it
\* was before the call.
C4_ModelErrorKeepsTranscript ==
    [][(pc = "call" /\ nCalls' # nCalls /\ pc' # "tools") =>
          /\ pc' = "idle"
          /\ \E e \in ModelErrors : returned' = [fmt |-> "Error: {e}", e |-> e]
          /\ messages' = messages
          /\ fs' = fs]_vars

\* a turn ended in a model-call error after one tool round trip
C4_Witness ==
    /\ pc = "idle"
    /\ returned.fmt = "Error: {e}"
    /\ messages # <<>>
    /\ IsResultsMessage(messages[Len(messages)])
    /\ nCalls = turnStart.calls + 2

\* the ToolUse block the for loop is at reports a failure when executed
FailsNow ==
    /\ pc = "tools"
    /\ i <= Len(response)
    /\ response[i].type = "tool_use"
    /\ Dispatch(fs, response[i].name, response[i].input).ret.fmt \in FailureFormats

\* C5: a tool execution that fails does not end the turn: the failure string
\* becomes the content of the ToolResult block of that invocation and the loop
\* goes on to the next block; at the end of the blocks the results, failures
\* included, are appended as one message, one per ToolUse block, and the loop is
\* at the next Model Client call, the only step it can take from there.
C5_ToolFailureGoesOn ==
    /\ [][/\ FailsNow =>
                /\ pc' = "tools"
                /\ i' = i + 1
                /\ returned' = returned
                /\ tool_results' =
                       Append(tool_results,
                              [type |-> "tool_result", tool_use_id |-> response[i].id,
                               content |-> Dispatch(fs, response[i].name,
                                                    response[i].input).ret])
          /\ (/\ pc = "tools"
              /\ i > Len(response)
              /\ \E j \in 1..Len(tool_results) :
                    tool_results[j].content.fmt \in FailureFormats) =>
                /\ pc' = "call"
                /\ Len(tool_results) = Len(ToolUses(response))
                /\ messages' = Append(messages, [role |-> "user", content |-> tool_results])
          /\ pc = "call" => nCalls' = nCalls + 1]_vars

\* after a response of two ToolUse blocks, the first of which failed (read_file of
\* a missing file), the second was executed and both results are in the transcript
C5_Witness ==
    /\ pc = "call"
    /\ messages # <<>>
    /\ IsResultsMessage(messages[Len(messages)])
    /\ Len(messages[Len(messages)].content) = 2
    /\ messages[Len(messages)].content[1].content.fmt = "File not found: {path}"
    /\ messages[Len(messages)].content[2].content.fmt = "Successfully created {path}"

-----------------------------------------------------------------------------
(* Properties of the tool executor, stated on the record of the latest call *)

Called(tool_name) == last.name = tool_name

\* the latest call reached _edit_file: both required arguments were given
EditCalled == Called("edit_file") /\ {"path", "new_text"} \subseteq Keys(last.input)

\* the path and the new_text the tool of the latest call received
PathArg == Get(last.input, "path")
NewTextArg == Get(last.input, "new_text")

\* the old_text _edit_file received
OldTextArg ==
    IF "old_text" \in Keys(last.input) THEN Get(last.input, "old_text") ELSE <<>>

\* the path _list_files received
ListPathArg == IF "path" \in Keys(last.input) THEN PathArg ELSE <<>>

\* the tree the tool of the latest call was dispatched on: line 115 has written
\* the record of the invocation to agent.log, a file a tool can be pointed at
AtDispatch == Logged(last.before, Invocation(last.name, last.input))

\* what the tool of the latest call found at the path it was given: nothing
\* where os.path.exists(path) is false
Target == IF PathExists(AtDispatch, PathArg) THEN AtDispatch[NodeOf(PathArg)] ELSE NoNode

\* the paths other than p are as the tool found them
OthersUntouched(p) == \A q \in Paths \ {p} : fs[q] = AtDispatch[q]

\* C6 as claimed: for every tool name outside {read_file, list_files, edit_file}
\* and every argument mapping, _execute_tool returns the unknown-tool string
\* carrying that name, raises nothing and performs no file-system operation:
\* the tree is as it was.
C6_UnknownToolNoFileOperation ==
    (last.name \notin ToolNames \cup {"none"}) =>
        /\ last.ret = [fmt |-> "Unknown tool: {tool_name}", tool_name |-> last.name]
        /\ ~last.raised
        /\ last.ops = <<>>
        /\ fs = last.before

\* C6, amended: for every tool name outside {read_file, list_files, edit_file}
\* and every argument mapping, _execute_tool returns the unknown-tool string
\* carrying that name and raises nothing; the one file-system operation it
\* performs is the append of the invocation's record to agent.log, and every
\* other path is as it was.
C6_UnknownToolName ==
    (last.name \notin ToolNames \cup {"none"}) =>
        /\ last.ret = [fmt |-> "Unknown tool: {tool_name}", tool_name |-> last.name]
        /\ ~last.raised
        /\ last.ops = <<>>
        /\ fs = AtDispatch

\* an unknown tool was called with the path of an existing file
C6_Witness ==
    /\ last.name \in OtherNames
    /\ "path" \in Keys(last.input)
    /\ PathArg \in Paths
    /\ last.before[PathArg].kind = "file"

\* C7 as claimed: edit_file on an existing file with a non-empty old_text that is
\* not a substring of the file's content returns the text-not-found message and
\* writes nothing: the tree is as the tool found it.
C7_AbsentTextLeavesFile ==
    (/\ EditCalled
     /\ OldTextArg # <<>>
     /\ Target.kind = "file"
     /\ ~Contains(Target.data, OldTextArg)) =>
        /\ last.ret = [fmt |-> "Text not found in file: {old_text}",
                       old_text |-> OldTextArg]
        /\ "open_w" \notin {last.ops[k] : k \in DOMAIN last.ops}
        /\ fs = AtDispatch

\* C8 as claimed: edit_file on an existing file whose content contains a non-empty
\* old_text leaves the file holding the old content with every occurrence of
\* old_text replaced by new_text and nothing else changed, and reports an edit.
C8_ReplacesEveryOccurrence ==
    (/\ EditCalled
     /\ OldTextArg # <<>>
     /\ Target.kind = "file"
     /\ Contains(Target.data, OldTextArg)) =>
        /\ last.ret = [fmt |-> "Successfully edited {path}", path |-> PathArg]
        /\ fs[PathArg] =
               FileNode(Replace(Target.data, OldTextArg, NewTextArg))
        /\ OthersUntouched(PathArg)

\* C9 as claimed, for the nonexistent paths that name a place no regular file
\* stands above (not the empty path, nor one ending in "/"): edit_file
\* with an empty old_text creates the file and its missing parent directories, the
\* file holds exactly new_text, and read_file on the path then returns new_text
\* verbatim.
C9_CreateThenReadRoundTrip ==
    (/\ EditCalled
     /\ OldTextArg = <<>>
     /\ PathArg \in Paths
     /\ last.before[PathArg].kind = "none"
     /\ PrefixError(last.before, PathArg) # "NotADirectoryError") =>
        /\ last.ret = [fmt |-> "Successfully created {path}", path |-> PathArg]
        /\ fs[PathArg] = FileNode(NewTextArg)
        /\ \A a \in Ancestors(PathArg) : fs[a].kind = "dir"
        /\ _read_file(fs, PathArg).ret =
               [fmt |-> "File {path} content:\n{content}", path |-> PathArg,
                content |-> NewTextArg]

\* the listing of a directory with children: a header with the path, then one line
\* per child, ascending by name, tagged directory exactly for the directories
ListingOf(t, path, ret) ==
    /\ DOMAIN ret = {"fmt", "path", "items"}
    /\ ret.fmt = "{path} content:\n{items}"
    /\ ret.path = path
    /\ Len(ret.items) = Cardinality(Children(t, NodeOf(path)))
    /\ \A k \in 1..Len(ret.items) :
          /\ ret.items[k].item \in Children(t, NodeOf(path))
          /\ ret.items[k].fmt = IF t[Append(NodeOf(path), ret.items[k].item)].kind = "dir"
                                THEN "[DIR]  {item}/" ELSE "[FILE] {item}"
    /\ \A k \in 1..Len(ret.items) : \A l \in (k + 1)..Len(ret.items) :
          Ord(ret.items[k].item) < Ord(ret.items[l].item)

\* C10 as claimed: list_files returns the path-not-found message when the path
\* does not exist, the empty-directory message when the directory has no children,
\* and in every other case the header and the sorted, tagged lines.
C10_ListFilesAsClaimed ==
    Called("list_files") =>
        IF ~PathExists(AtDispatch, ListPathArg)
        THEN last.ret = [fmt |-> "Path not found: {path}", path |-> ListPathArg]
        ELSE IF AtDispatch[NodeOf(ListPathArg)].kind = "dir"
                /\ Children(AtDispatch, NodeOf(ListPathArg)) = {}
        THEN last.ret = [fmt |-> "Empty directory: {path}", path |-> ListPathArg]
        ELSE ListingOf(AtDispatch, ListPathArg, last.ret)

\* C10, amended: list_files returns the path-not-found message when the path does
\* not exist, the list-error message when it exists and is no directory, the
\* empty-directory message when it is a directory without children, and otherwise
\* the header and one line per child, ascending by name, each tagged directory
\* exactly when it is one; the tree is left as list_files found it.
C10_ListFiles ==
    Called("list_files") =>
        /\ fs = AtDispatch
        /\ IF ~PathExists(AtDispatch, ListPathArg)
           THEN last.ret = [fmt |-> "Path not found: {path}", path |-> ListPathArg]
           ELSE IF AtDispatch[NodeOf(ListPathArg)].kind = "file"
           THEN last.ret = [fmt |-> "Error listing files: {e}",
                            e |-> Exc("NotADirectoryError", ListPathArg)]
           ELSE IF Children(AtDispatch, NodeOf(ListPathArg)) = {}
           THEN last.ret = [fmt |-> "Empty directory: {path}", path |-> ListPathArg]
           ELSE ListingOf(AtDispatch, ListPathArg, last.ret)

\* the working directory was listed while it held the log file, the directory d
\* and the file f
C10_Witness ==
    /\ Called("list_files")
    /\ ListPathArg = <<>>
    /\ last.before[<<"d">>].kind = "dir"
    /\ last.before[<<"f">>].kind = "file"
    /\ last.ret.items = <<[fmt |-> "[FILE] {item}", item |-> LogName],
                          [fmt |-> "[DIR]  {item}/", item |-> "d"],
                          [fmt |-> "[FILE] {item}", item |-> "f"]>>

\* the latest call reached _read_file: the required argument was given
ReadCalled == Called("read_file") /\ "path" \in Keys(last.input)

\* C11 as claimed: read_file on a path that does not exist returns the
\* file-not-found message naming the path, and on an existing file the full
\* content of the file, as it is when read_file opens it, prefixed with the
\* path.
C11_ReadFileAsClaimed ==
    ReadCalled =>
        /\ Target.kind = "none" =>
              last.ret = [fmt |-> "File not found: {path}", path |-> PathArg]
        /\ Target.kind = "file" =>
              last.ret = [fmt |-> "File {path} content:\n{content}",
                          path |-> PathArg, content |-> Target.data]

-----------------------------------------------------------------------------
(* Properties of the transcript *)

\* the assistant messages of the transcript
Assistants == {k \in 1..Len(messages) : messages[k].role = "assistant"}

\* C12 as claimed: in every reachable state the transcript holds as many
\* assistant messages as Model Client calls were made in the session.
C12_OneAssistantPerCall == Cardinality(Assistants) = nCalls

\* C12, amended: one assistant message is appended per Model Client call that
\* returns a response and none for a call that raises: the transcript holds as
\* many assistant messages as calls were made less those that raised.
C12_OneAssistantPerReturnedCall == Cardinality(Assistants) = nCalls - nRaised

\* two calls were made, one raised, and the transcript holds one assistant message
C12_Witness == nCalls = 2 /\ nRaised = 1 /\ Cardinality(Assistants) = 1

\* C13: the transcript is append-only: in every step of the session, a step that
\* ends a turn with a model-call error included, the transcript before the step
\* is a prefix of the transcript after it.
C13_AppendOnly ==
    [][/\ Len(messages) <= Len(messages')
       /\ SubSeq(messages', 1, Len(messages)) = messages]_vars

\* a turn that had appended a request, a response and its results ended in a
\* model-call error, and the three messages are in the transcript
C13_Witness ==
    /\ pc = "idle"
    /\ nRaised = 1
    /\ returned = ErrorText("APIConnectionError")
    /\ Len(messages) = 3
    /\ IsResultsMessage(messages[3])

\* the ids of the ToolUse blocks of a content, in order
UseIds(content) == [j \in 1..Len(ToolUses(content)) |-> ToolUses(content)[j].id]

\* the ids the ToolResult blocks of a content answer, in order
ResultIds(content) == [j \in 1..Len(content) |-> content[j].tool_use_id]

\* the messages of the current turn are one user-input message and then
\* assistant messages, each one that requested tools followed by the message of
\* its results and each one that did not being the last
TurnShape ==
    /\ Len(messages) > turnStart.msgs
    /\ messages[turnStart.msgs + 1].role = "user"
    /\ ~IsResultsMessage(messages[turnStart.msgs + 1])
    /\ \A k \in (turnStart.msgs + 2)..Len(messages) :
          IF (k - turnStart.msgs) % 2 = 0
          THEN /\ messages[k].role = "assistant"
               /\ IF ToolUses(messages[k].content) # <<>>
                  THEN /\ k < Len(messages)
                       /\ IsResultsMessage(messages[k + 1])
                       /\ ResultIds(messages[k + 1].content) = UseIds(messages[k].content)
                  ELSE k = Len(messages)
          ELSE IsResultsMessage(messages[k])

\* the current turn ended because its first Model Client call raised
FirstCallRaised ==
    /\ returned.fmt = "Error: {e}"
    /\ nCalls = turnStart.calls + 1

\* C14 as claimed: the transcript is empty at session start, and every finished
\* turn has extended it by one user-input message followed by one or more
\* assistant messages, each one that requested tools followed by its results.
C14_TurnAddsAssistants ==
    /\ nTurns = 0 => messages = <<>>
    /\ (pc = "idle" /\ nTurns > 0) => (TurnShape /\ TurnAssistants # {})

\* C14, amended: the transcript is empty at session start, and every finished
\* turn has extended it by one user-input message followed by assistant
\* messages, each one that requested tools followed by its results: none when
\* the first Model Client call of the turn raised, one or more otherwise.
C14_TurnShape ==
    /\ nTurns = 0 => messages = <<>>
    /\ (pc = "idle" /\ nTurns > 0) =>
          /\ TurnShape
          /\ TurnAssistants = {} <=> FirstCallRaised

\* a finished turn added a request, a tool-requesting response, its results and
\* a closing response
C14_Witness ==
    /\ pc = "idle"
    /\ nTurns = 1
    /\ Len(messages) = 4
    /\ IsResultsMessage(messages[3])
    /\ Cardinality(TurnAssistants) = 2

-----------------------------------------------------------------------------
(* Further properties of the tool executor *)

\* the latest call took the replace branch of _edit_file: it opened the path for
\* reading
TookReplaceBranch == \E j \in 1..Len(last.ops) : last.ops[j] = "open_r"

\* no file can be opened for writing at the path: it is the empty str, ends in
\* "/", is a directory, or lies below a regular file
NoPlaceForFile(p) ==
    \/ p \notin Paths
    \/ AtDispatch[p].kind = "dir"
    \/ \E a \in Ancestors(p) : AtDispatch[a].kind = "file"

\* the directories os.makedirs(os.path.dirname(p)) makes when they are missing
DirsOf(p) == IF DirName(p) = <<>> THEN {} ELSE Ancestors(DirName(p)) \cup {DirName(p)}

\* C15 as claimed: edit_file is in replace mode exactly when the path exists and
\* old_text is not empty, and in every other case it is in create mode, after
\* which the file at the path holds exactly new_text and creation is reported.
C15_CreateModeAlwaysWrites ==
    EditCalled =>
        /\ TookReplaceBranch <=> (PathExists(AtDispatch, PathArg) /\ OldTextArg # <<>>)
        /\ ~TookReplaceBranch =>
              /\ PathArg \in Paths
              /\ fs[PathArg] = FileNode(NewTextArg)
              /\ last.ret = [fmt |-> "Successfully created {path}",
                             path |-> PathArg]

\* C15, amended: edit_file is in replace mode exactly when the path exists, as a
\* file or as a directory, and old_text is not empty, and in create mode in
\* every other case.  Create mode makes the missing directories of the path's
\* directory part, then opens the path for writing.  When both succeed the
\* file holds exactly new_text whatever it held before, agent.log included,
\* creation is reported and nothing else changes.  When one fails, which is
\* when the path is empty, ends in "/", is a directory or lies below a regular
\* file, the edit-error string is returned and no file is created or changed;
\* directories made before the failure remain: none for a path that does not
\* end in "/", every missing directory along a path that does and has no
\* regular file on it.
C15_EditModes ==
    EditCalled =>
        /\ TookReplaceBranch <=> (PathExists(AtDispatch, PathArg) /\ OldTextArg # <<>>)
        /\ ~TookReplaceBranch =>
              IF NoPlaceForFile(PathArg)
              THEN /\ last.ret.fmt = "Error editing file: {e}"
                   /\ \A q \in Paths :
                         \/ fs[q] = AtDispatch[q]
                         \/ /\ q \in DirsOf(PathArg)
                            /\ AtDispatch[q] = NoNode
                            /\ fs[q] = DirNode
                   /\ ~EndsInSlash(PathArg) => fs = AtDispatch
                   /\ (/\ EndsInSlash(PathArg)
                       /\ \A q \in DirsOf(PathArg) : AtDispatch[q].kind # "file") =>
                         \A q \in DirsOf(PathArg) : fs[q] = DirNode
              ELSE /\ fs[PathArg] = FileNode(NewTextArg)
                   /\ last.ret = [fmt |-> "Successfully created {path}",
                                  path |-> PathArg]
                   /\ \A a \in Ancestors(PathArg) : fs[a] = DirNode
                   /\ \A q \in Paths \ (Ancestors(PathArg)
                                          \cup {PathArg}) :
                         fs[q] = AtDispatch[q]

\* edit_file with an empty old_text overwrote a file that held another text
C15_Witness ==
    /\ EditCalled
    /\ OldTextArg = <<>>
    /\ PathArg \in Paths
    /\ last.before[PathArg].kind = "file"
    /\ last.before[PathArg].data # NewTextArg
    /\ fs[PathArg] = FileNode(NewTextArg)
    /\ last.ret.fmt = "Successfully created {path}"

-----------------------------------------------------------------------------
(* Further properties of the loop *)

\* the tree left by running the calls of a log one after another, each on the
\* tree the one before it left, from the tree t
RECURSIVE RunAll(_, _)
RunAll(t, log) ==
    IF log = <<>> THEN t
    ELSE _execute_tool(RunAll(t, SubSeq(log, 1, Len(log) - 1)),
                       log[Len(log)].name, log[Len(log)].input).fs

\* the tree without the log file
Files(t) == [q \in ToolPaths |-> t[q]]

\* the ToolUse blocks of the current response the for loop has passed
DoneUses == ToolUses(SubSeq(response, 1, i - 1))

\* C16: the ToolUse blocks of a response are executed one after another in
\* response order, each on the tree all earlier calls have left, with nothing
\* undone: the files and directories are at every moment those that running
\* every executed call of the session in order gives, whether or not a call
\* failed, and the j-th result of the current response is what its j-th ToolUse
\* block returns on the tree left by all calls before it.
C16_SequentialNoRollback ==
    /\ Files(fs) = Files(RunAll(EmptyTree, execLog))
    /\ pc = "tools" =>
          /\ Len(tool_results) = Len(DoneUses)
          /\ Len(execLog) >= Len(DoneUses)
          /\ \A j \in 1..Len(DoneUses) :
                /\ execLog[Len(execLog) - Len(DoneUses) + j].id = DoneUses[j].id
                /\ tool_results[j] =
                      ToolResultBlock(DoneUses[j].id,
                          _execute_tool(RunAll(EmptyTree,
                                               SubSeq(execLog, 1,
                                                      Len(execLog) - Len(DoneUses) + j - 1)),
                                        DoneUses[j].name, DoneUses[j].input).ret)

\* one response asked to create f with "a", then to read f: the read returned "a"
C16_Witness ==
    /\ pc = "tools"
    /\ Len(tool_results) = 2
    /\ tool_results[1].content.fmt = "Successfully created {path}"
    /\ tool_results[2].content = [fmt |-> "File {path} content:\n{content}",
                                  path |-> <<"f">>, content |-> <<"a">>]
    /\ fs[<<"f">>] = FileNode(<<"a">>)

\* the response the loop is working on holds no ToolUse block
NoToolUseResponse == pc = "tools" /\ ToolUses(response) = <<>>

\* C17: chat returns only when a response holds no ToolUse block or a Model
\* Client call raises, however many round trips the turn has made: a response
\* with a ToolUse block is always followed by another call, so a turn whose
\* every response holds one never returns; and once the model gives a response
\* without ToolUse block the turn does return.
C17_ReturnsOnlyWhenModelStops ==
    /\ [][(pc # "idle" /\ pc' = "idle") => (pc = "call" \/ NoToolUseResponse)]_vars
    /\ [][(pc = "tools" /\ ToolUses(response) # <<>>) => pc' # "idle"]_vars
    /\ NoToolUseResponse ~> (pc = "idle")

\* a turn made a tool round trip, then got a response without ToolUse block and
\* returned its text
C17_Witness ==
    /\ pc = "idle"
    /\ nTurns = 1
    /\ nCalls = 2
    /\ nRaised = 0
    /\ Len(execLog) > 0
    /\ ToolUses(response) = <<>>
    /\ returned = FinalText(response)

\* the current turn is over and did not end in a model-call error
TurnDone == pc = "idle" /\ nTurns > 0 /\ returned.fmt # "Error: {e}"

\* C18: when a turn ends without model-call error, whatever the number of its
\* round trips, chat returns the text of the first block of the last response,
\* which holds no ToolUse block, or the empty string when that response has no
\* block; the Text blocks of every response are put in the transcript, those of
\* the earlier, tool-requesting responses of the turn included, and the returned
\* value has no part of them.
C18_ReturnsFirstTextOfLastResponse ==
    /\ [](TurnDone =>
            /\ ToolUses(response) = <<>>
            /\ messages[Len(messages)] = [role |-> "assistant", content |-> response]
            /\ IF response = <<>>
               THEN returned = [fmt |-> ""]
               ELSE returned = [fmt |-> "{text}", text |-> response[1].text])
    /\ [][(pc = "call" /\ pc' = "tools") =>
             SelectBlocks(messages'[Len(messages')].content, {"text"})
                 = SelectBlocks(response', {"text"})]_vars

\* a turn whose first response held the text "hi" and a ToolUse block ended on a
\* response of the two texts "ok" and "hi": chat returned "ok", and the first
\* "hi" is in the transcript
C18_Witness ==
    /\ TurnDone
    /\ nTurns = 1
    /\ Len(messages) = 4
    /\ messages[2].content[1] = TextBlock("hi")
    /\ Len(messages[2].content) = 2
    /\ response = <<TextBlock("ok"), TextBlock("hi")>>
    /\ returned = [fmt |-> "{text}", text |-> "ok"]

\* C19 as claimed: at every Model Client call the transcript is not empty and
\* ends with a user message, and in every reachable state the roles along the
\* transcript alternate strictly, user first, even when a new turn starts after
\* a turn that ended in a model-call error.
C19_RolesAlternate ==
    /\ pc = "call" =>
          /\ messages # <<>>
          /\ messages[Len(messages)].role = "user"
    /\ messages # <<>> => messages[1].role = "user"
    /\ \A k \in 1..(Len(messages) - 1) : messages[k].role # messages[k + 1].role

-----------------------------------------------------------------------------
(* Missing arguments *)

\* the required arguments of a tool, in the order lines 118-125 look them up
Required(tool_name) ==
    IF tool_name = "read_file" THEN <<"path">>
    ELSE IF tool_name = "edit_file" THEN <<"path", "new_text">>
    ELSE <<>>

\* the first required argument the latest call lacks, "" when it has them all
FirstMissing ==
    LET req == Required(last.name)
        miss == {j \in 1..Len(req) : req[j] \notin Keys(last.input)}
    IN IF miss = {} THEN ""
       ELSE req[CHOOSE j \in miss : \A l \in miss : j <= l]

\* C20 as claimed: a call of read_file without path, or of edit_file without
\* path or without new_text, returns the execution-error string for the missing
\* key and leaves the file system unchanged, no file being opened, created or
\* written; list_files without path lists the current directory ".".
C20_MissingArgumentNoWrite ==
    /\ (last.name \in {"read_file", "edit_file"} /\ FirstMissing # "") =>
          /\ last.ret = [fmt |-> "Error executing {tool_name}: {e}",
                         tool_name |-> last.name,
                         e |-> [type |-> "KeyError", arg |-> FirstMissing]]
          /\ ~last.raised
          /\ last.ops = <<>>
          /\ fs = last.before
    /\ (Called("list_files") /\ "path" \notin Keys(last.input)) =>
          ListingOf(last.before, <<>>, last.ret)

\* C20, amended: a call of read_file without path, or of edit_file without path
\* or without new_text, returns the execution-error string for the missing key
\* and raises nothing; the lookup fails before the tool opens, creates or writes
\* any file, so that every path is as it was but agent.log, to which the record
\* of the invocation and the record of the error are appended; list_files
\* without path lists the current directory ".", agent.log among its children.
C20_MissingArgument ==
    /\ (last.name \in {"read_file", "edit_file"} /\ FirstMissing # "") =>
          /\ last.ret = [fmt |-> "Error executing {tool_name}: {e}",
                         tool_name |-> last.name,
                         e |-> [type |-> "KeyError", arg |-> FirstMissing]]
          /\ ~last.raised
          /\ last.ops = <<>>
          /\ fs = Logged(AtDispatch, Render(last.ret))
    /\ (Called("list_files") /\ "path" \notin Keys(last.input)) =>
          /\ fs = AtDispatch
          /\ ListingOf(AtDispatch, <<>>, last.ret)
          /\ last.ret.items[1] = [fmt |-> "[FILE] {item}", item |-> LogName]

\* edit_file was called with an old_text and then a path but no new_text, on a file
\* that holds the old_text
C20_Witness ==
    /\ Called("edit_file")
    /\ Len(last.input) = 2
    /\ last.input[1] = Item("old_text", <<"a">>)
    /\ last.input[2].key = "path"
    /\ PathArg \in Paths
    /\ last.before[PathArg].kind = "file"
    /\ last.ret.fmt = "Error executing {tool_name}: {e}"
    /\ last.ret.e.arg = "new_text"

====
